---- MODULE Spec2Model ----
(***************************************************************************)
(* A model of minBlepy's MinBleps class (src/minBlepy/minblep.py): scale   *)
(* resolution, the integer part of table construction (sizes and the four  *)
(* index maps), the runtime queries getoutcount / getminnaiven, streaming  *)
(* conversion, and the pickle cache of loadorcreate.                       *)
(*                                                                         *)
(* Arrays are functions over 0..n-1, as numpy indexes them.  An optional   *)
(* value is a set with at most one element: {} is Python's None.           *)
(* Floating-point sample values (bli, minbli, minblep) are not modelled;   *)
(* the lengths and offsets derived from them are.                          *)
(***************************************************************************)
EXTENDS Integers, Sequences, FiniteSets

VARIABLES
    request,    \* {} or the arguments MinBleps.create was called with
    minbleps,   \* {} before construction, {t} once MinBleps.create returned t
    raised,     \* <<>> or the exception MinBleps.create raised
    query,      \* the last getoutcount / getminnaiven call and its return value
    stream,     \* a streaming conversion: start, position, consumed, produced
    pc,         \* cache: where each loadorcreate / create call stands
    call,       \* cache: each call's arguments and locals
    fs,         \* cache: the file at each path, {} when the path does not exist
    cachedir    \* cache: whether ~/.cache/minBlepy exists

vars == <<request, minbleps, raised, query, stream, pc, call, fs, cachedir>>

tablevars == <<request, minbleps, raised, query, stream>>
cachevars == <<pc, call, fs, cachedir>>

----------------------------------------------------------------------------
(* Bounds of the model. *)

\* Largest naiverate / outrate the table specifications construct.
MaxRate == 4
\* Largest naiven handed to getoutcount (more than two periods of MaxRate).
MaxNaiveN == 9
\* Largest outcount handed to getminnaiven.
MaxOutCount == 6
\* Largest single block of a streaming conversion.
MaxBlock == 4
\* Naive samples a streaming conversion consumes at most.
MaxConsumed == 10

\* Values an uninitialised np.empty(..., int32) cell may hold: whatever the
\* allocator left there.  Zero (a fresh page) and a value past every index of
\* the model stand for the int32 range.
EmptyValues == {0, 9}

\* transition arguments as exact fractions <<numerator, denominator>>:
\* the default 0.05, 0.25 and 0.5.
Transitions == {<<1, 20>>, <<1, 4>>, <<1, 2>>}

----------------------------------------------------------------------------
(* Pure helpers of minblep.py. *)

\* math.gcd / fractions.gcd on non-negative integers (Euclid).
RECURSIVE gcd(_, _)
gcd(a, b) == IF b = 0 THEN a ELSE gcd(b, a % b)

\* MinBleps.round(v) = np.int32(v + .5) for v = num/den >= 0: the int32
\* conversion truncates, which on non-negative values is floor.
round(num, den) == (2 * num + den) \div (2 * den)

\* A resolvescale that returns the other rate's share of the gcd.
resolvescaleSwapped(naiverate, outrate, scaleornone) ==
    LET idealscale == outrate \div gcd(naiverate, outrate)
    IN  IF scaleornone # {} /\ scaleornone # {idealscale}
        THEN [raised |-> <<"Exception", CHOOSE s \in scaleornone : TRUE, idealscale>>,
              scale |-> {}]
        ELSE [raised |-> <<>>, scale |-> {idealscale}]

\* A resolvescale that never checks the override.
resolvescaleUnchecked(naiverate, outrate, scaleornone) ==
    [raised |-> <<>>, scale |-> {naiverate \div gcd(naiverate, outrate)}]

\* MinBleps.resolvescale: the ideal scale, or the exception with the
\* requested and the ideal scale ("Expected scale %s but ideal is %s.").
resolvescale(naiverate, outrate, scaleornone) ==
    LET idealscale == naiverate \div gcd(naiverate, outrate)
    IN  IF scaleornone # {} /\ scaleornone # {idealscale}
        THEN [raised |-> <<"Exception", CHOOSE s \in scaleornone : TRUE, idealscale>>,
              scale |-> {}]
        ELSE [raised |-> <<>>, scale |-> {idealscale}]

\* order = int(self.round(4 / transition / 2)) * 2
order(transition) == round(4 * transition[2], 2 * transition[1]) * 2

\* size = 2 ** 0; while size < kernelsize: size <<= 1
RECURSIVE growsize(_, _)
growsize(size, kernelsize) ==
    IF size < kernelsize THEN growsize(size * 2, kernelsize) ELSE size

\* len(self.minblep) after the zeros are prepended and the ones appended:
\* the cumulative sum has `size` samples, scale - 1 zeros go in front and
\* (-len) % scale ones behind.
minbleplen(size, scale) ==
    LET len == (scale - 1) + size
        ones == (0 - len) % scale
    IN  len + ones

\* self.naivex2shape = self.naivex2outx * scale - nearest + scale, one past
\* the source's offset.
naivex2shapeOffByOne(naivex2outx, nearest, scale) ==
    [n \in DOMAIN nearest |-> naivex2outx[n] * scale - nearest[n] + scale]

\* self.naivex2shape = self.naivex2outx * scale - nearest + scale - 1
naivex2shapeOf(naivex2outx, nearest, scale) ==
    [n \in DOMAIN nearest |-> naivex2outx[n] * scale - nearest[n] + scale - 1]

\* The loop of lines 111-112 from index naivex down to 0, on the array so far.
RECURSIVE fillinverse(_, _, _)
fillinverse(outx2minnaivex, naivex2outx, naivex) ==
    IF naivex < 0 THEN outx2minnaivex
    ELSE fillinverse([outx2minnaivex EXCEPT ![naivex2outx[naivex]] = naivex],
                     naivex2outx, naivex - 1)

\* The same loop running upwards, from index naivex to naiverate - 1.
RECURSIVE fillinverseUp(_, _, _, _)
fillinverseUp(outx2minnaivex, naivex2outx, naivex, naiverate) ==
    IF naivex >= naiverate THEN outx2minnaivex
    ELSE fillinverseUp([outx2minnaivex EXCEPT ![naivex2outx[naivex]] = naivex],
                       naivex2outx, naivex + 1, naiverate)

\* outx2minnaivex filled by range(naiverate) in ascending order.
outx2minnaivexAscending(empty, naivex2outx, naiverate) ==
    fillinverseUp(empty, naivex2outx, 0, naiverate)

\* outx2minnaivex filled by range(naiverate - 1)[::-1]: the last naive
\* index is never visited.
outx2minnaivexShort(empty, naivex2outx, naiverate) ==
    fillinverse(empty, naivex2outx, naiverate - 2)

\* self.outx2minnaivex: np.empty(outrate) (here `empty`), then
\* for naivex in range(naiverate)[::-1]: outx2minnaivex[naivex2outx[naivex]] = naivex
outx2minnaivexOf(empty, naivex2outx, naiverate) ==
    fillinverse(empty, naivex2outx, naiverate - 1)

\* MinBleps.__init__: the attributes it sets.  The float arrays bli,
\* minblep and demultiplexed are kept by their lengths; `empty` is the content
\* of the np.empty(outrate) array before the loop writes to it.
MinBleps(naiverate, outrate, scale, transition, empty) ==
    LET kernelsize == order(transition) * scale + 1
        size == growsize(1, kernelsize)
        len == minbleplen(size, scale)
        mixinsize == len \div scale
        dualscale == outrate \div gcd(naiverate, outrate)
        nearest == [n \in 0..(naiverate - 1) |-> n * dualscale]
        naivex2outx == [n \in 0..(naiverate - 1) |-> nearest[n] \div scale]
        naivex2shape == naivex2shapeOf(naivex2outx, nearest, scale)
    IN  [naiverate |-> naiverate,
         outrate |-> outrate,
         blilen |-> size,
         minbleplen |-> len,
         mixinsize |-> mixinsize,
         demultiplexedlen |-> len,
         naivex2outx |-> naivex2outx,
         naivex2shape |-> naivex2shape,
         naivex2off |-> [n \in 0..(naiverate - 1) |-> naivex2shape[n] * mixinsize],
         outx2minnaivex |-> outx2minnaivexOf(empty, naivex2outx, naiverate)]

\* getoutcount without the correction of out0 by whole periods.
getoutcountNoShift(t, naivex, naiven) ==
    LET out0 == t.naivex2outx[naivex]
        naivex1 == naivex + naiven
        shift == naivex1 \div t.naiverate
        naivex2 == naivex1 - t.naiverate * shift
    IN  t.naivex2outx[naivex2] - out0

\* MinBleps.getoutcount
getoutcount(t, naivex, naiven) ==
    LET out0 == t.naivex2outx[naivex]
        naivex1 == naivex + naiven
        shift == naivex1 \div t.naiverate
        out1 == out0 - t.outrate * shift
        naivex2 == naivex1 - t.naiverate * shift
    IN  t.naivex2outx[naivex2] - out1

\* MinBleps.getminnaiven
getminnaiven(t, naivex, outcount) ==
    LET outx == t.naivex2outx[naivex] + outcount
        shift == outx \div t.outrate
        outx1 == outx - t.outrate * shift
        naivex1 == naivex - t.naiverate * shift
    IN  t.outx2minnaivex[outx1] - naivex1

----------------------------------------------------------------------------
(* The table and its queries. *)

ScaleOrNone == {{}} \cup {{s} : s \in 1..MaxRate}

\* Nothing constructed yet; the cache part is not in use.
TableInit ==
    /\ request = {}
    /\ minbleps = {}
    /\ raised = <<>>
    /\ query = {}
    /\ stream = {}
    /\ pc = <<>>
    /\ call = <<>>
    /\ fs = <<>>
    /\ cachedir = FALSE

\* MinBleps.create: resolvescale, then the constructor.  cutoff only scales
\* the floating-point kernel and is left out.
Create(naiverate, outrate, scaleornone, transition, empty) ==
    /\ request = {}
    /\ request' = {[naiverate |-> naiverate, outrate |-> outrate,
                    scaleornone |-> scaleornone, transition |-> transition]}
    /\ LET r == resolvescale(naiverate, outrate, scaleornone)
       IN  IF r.raised # <<>>
           THEN /\ raised' = r.raised
                /\ UNCHANGED minbleps
           ELSE /\ minbleps' = {MinBleps(naiverate, outrate,
                                         CHOOSE s \in r.scale : TRUE,
                                         transition, empty)}
                /\ UNCHANGED raised
    /\ UNCHANGED <<query, stream, cachevars>>

CreateAny ==
    \E naiverate \in 1..MaxRate, outrate \in 1..MaxRate,
       scaleornone \in ScaleOrNone, transition \in Transitions :
        \E empty \in [0..(outrate - 1) -> EmptyValues] :
            Create(naiverate, outrate, scaleornone, transition, empty)

\* A caller's getoutcount(naivex, naiven) with naivex inside the period.
GetOutCount ==
    \E t \in minbleps, naivex \in 0..(MaxRate - 1), naiven \in 0..MaxNaiveN :
        /\ naivex < t.naiverate
        /\ query' = {[op |-> "getoutcount", naivex |-> naivex, arg |-> naiven,
                      ret |-> getoutcount(t, naivex, naiven)]}
        /\ UNCHANGED <<request, minbleps, raised, stream, cachevars>>

\* A caller's getminnaiven(naivex, outcount) with naivex inside the period.
GetMinNaiveN ==
    \E t \in minbleps, naivex \in 0..(MaxRate - 1), outcount \in 0..MaxOutCount :
        /\ naivex < t.naiverate
        /\ query' = {[op |-> "getminnaiven", naivex |-> naivex, arg |-> outcount,
                      ret |-> getminnaiven(t, naivex, outcount)]}
        /\ UNCHANGED <<request, minbleps, raised, stream, cachevars>>

TableNext == CreateAny \/ GetOutCount \/ GetMinNaiveN

SpecTable == TableInit /\ [][TableNext]_vars

----------------------------------------------------------------------------
(* Streaming conversion: the caller asks getoutcount for each block and     *)
(* carries naivex forward modulo naiverate.                                 *)

StreamStart ==
    \E t \in minbleps, naivex0 \in 0..(MaxRate - 1) :
        /\ stream = {}
        /\ naivex0 < t.naiverate
        /\ stream' = {[naivex0 |-> naivex0, naivex |-> naivex0, consumed |-> 0,
                       produced |-> 0, naiven |-> 0, outcount |-> 0]}
        /\ UNCHANGED <<request, minbleps, raised, query, cachevars>>

Block ==
    \E t \in minbleps, s \in stream, naiven \in 0..MaxBlock :
        /\ s.consumed + naiven <= MaxConsumed
        /\ LET outcount == getoutcount(t, s.naivex, naiven)
           IN  stream' = {[s EXCEPT !.naivex = (s.naivex + naiven) % t.naiverate,
                                    !.consumed = s.consumed + naiven,
                                    !.produced = s.produced + outcount,
                                    !.naiven = naiven,
                                    !.outcount = outcount]}
        /\ UNCHANGED <<request, minbleps, raised, query, cachevars>>

StreamNext == CreateAny \/ StreamStart \/ Block

SpecStream == TableInit /\ [][StreamNext]_vars

----------------------------------------------------------------------------
(* The pickle cache of loadorcreate.  Several calls run concurrently (threads *)
(* or processes sharing ~/.cache/minBlepy); each step below is one file       *)
(* system operation or one local computation of a call.                      *)

\* Concurrent calls.
NumCalls == 2

Calls == 1..NumCalls

\* defaultcutoff = .475 and defaulttransition = .05 as exact fractions.
defaultcutoff == <<19, 40>>
defaulttransition == <<1, 20>>

\* The arguments the calls are made with.  The rate pair 2, 3 (upsampling,
\* ideal scale 2) comes with no override, the override 2 and the override 3,
\* which resolvescale refuses; the rate pair 3, 2 (downsampling, ideal
\* scale 3) gives the cache a second entry.
CallArgs ==
    [method : {"loadorcreate"}, rates : {<<2, 3>>}, scaleornone : {{}, {2}, {3}},
     cutoff : {defaultcutoff}, transition : {defaulttransition}]
    \cup
    [method : {"create"}, rates : {<<2, 3>>}, scaleornone : {{}, {3}},
     cutoff : {defaultcutoff}, transition : {defaulttransition}]
    \cup
    [method : {"loadorcreate"}, rates : {<<3, 2>>}, scaleornone : {{}},
     cutoff : {defaultcutoff}, transition : {defaulttransition}]

\* A directory is 0 for ~/.cache/minBlepy and c for the temporary directory
\* of call c's atomic block; a path is <<directory, file name>>.
CacheDir == 0

\* The file name with the scale as the caller passed it.
cachenameAsPassed(a, scale) ==
    <<a.rates[1], a.rates[2],
      IF a.scaleornone = {} THEN 0 ELSE CHOOSE x \in a.scaleornone : TRUE,
      a.cutoff, a.transition>>

\* The file name of line 51: the reprs of naiverate, outrate, the resolved
\* scale, cutoff and transition.
cachename(a, scale) == <<a.rates[1], a.rates[2], scale, a.cutoff, a.transition>>

CacheNames == {cachename(a, s) : a \in CallArgs, s \in {2, 3}}
                \cup {cachenameAsPassed(a, 0) : a \in CallArgs}

Paths == (0..NumCalls) \X CacheNames

\* pickle.dump(minbleps, f, pickle.HIGHEST_PROTOCOL): the attributes in a
\* fixed order, scalars first, then the arrays element by element.
picklearray(f, n) == [i \in 1..n |-> f[i - 1]]

pickledump(t) ==
    <<t.naiverate, t.outrate, t.blilen, t.minbleplen, t.mixinsize, t.demultiplexedlen>>
    \o picklearray(t.naivex2outx, t.naiverate)
    \o picklearray(t.naivex2shape, t.naiverate)
    \o picklearray(t.naivex2off, t.naiverate)
    \o picklearray(t.outx2minnaivex, t.outrate)

\* pickle.load(f): {} when the stream ends before the object is complete
\* (the load raises), else the object the stream encodes; the load stops at
\* the end of the object and ignores whatever follows it in the file.
pickleload(bytes) ==
    IF Len(bytes) < 6 THEN {}
    ELSE LET naiverate == bytes[1]
             outrate == bytes[2]
             at(k) == [n \in 0..(naiverate - 1) |-> bytes[6 + k * naiverate + n + 1]]
         IN  IF Len(bytes) < 6 + 3 * naiverate + outrate THEN {}
             ELSE {[naiverate |-> naiverate,
                    outrate |-> outrate,
                    blilen |-> bytes[3],
                    minbleplen |-> bytes[4],
                    mixinsize |-> bytes[5],
                    demultiplexedlen |-> bytes[6],
                    naivex2outx |-> at(0),
                    naivex2shape |-> at(1),
                    naivex2off |-> at(2),
                    outx2minnaivex |->
                        [o \in 0..(outrate - 1) |-> bytes[6 + 3 * naiverate + o + 1]]]}

\* The exceptions pickle.load may raise on a stream that ends early:
\* EOFError ("Ran out of input") when it ends where the next opcode or frame
\* is due, as the empty file does, UnpicklingError ("pickle data was
\* truncated") when it ends inside one.  Opcodes and frames are below this
\* model's elements, so a non-empty short stream may raise either.
pickleerrors(bytes) ==
    IF Len(bytes) = 0 THEN {"EOFError"} ELSE {"EOFError", "UnpicklingError"}

\* What has reached the file when the dump is interrupted half way.
dumphead(bytes) == SubSeq(bytes, 1, Len(bytes) \div 2)

NoCall ==
    [args |-> {}, scale |-> {}, raised |-> <<>>, minbleps |-> {},
     opened |-> {}, built |-> FALSE, touched |-> FALSE, published |-> FALSE,
     after |-> FALSE]

\* No call made yet; the cache directory does not exist.
CacheInit ==
    /\ request = {}
    /\ minbleps = {}
    /\ raised = <<>>
    /\ query = {}
    /\ stream = {}
    /\ pc = [c \in Calls |-> "idle"]
    /\ call = [c \in Calls |-> NoCall]
    /\ fs = [p \in Paths |-> {}]
    /\ cachedir = FALSE

argsof(c) == CHOOSE a \in call[c].args : TRUE
scaleof(c) == CHOOSE s \in call[c].scale : TRUE
tableof(c) == CHOOSE t \in call[c].minbleps : TRUE

\* path of line 51
path(c) == <<CacheDir, cachename(argsof(c), scaleof(c))>>

\* q, the path the atomic block yields: the file of the same name in a
\* temporary directory of its own.
temppath(c) == <<c, cachename(argsof(c), scaleof(c))>>

\* Opening the published path itself for writing.
dumppathPublished(c) == path(c)

\* The path line 59 opens for writing: q.open('wb').
dumppath(c) == temppath(c)

\* The parameters the spec keys the cache by, with the scale the rates imply.
SameParams(a, b) ==
    /\ a.rates = b.rates /\ a.cutoff = b.cutoff /\ a.transition = b.transition

\* Some earlier loadorcreate with the parameters of `a` has published.
PublishedBefore(a) ==
    \E d \in Calls :
        /\ call[d].published
        /\ SameParams(argsof(d), a)

\* Lines 49-50: loadorcreate is called and resolves the scale.
LoadOrCreate(c, a) ==
    /\ pc[c] = "idle"
    /\ a.method = "loadorcreate"
    /\ LET r == resolvescale(a.rates[1], a.rates[2], a.scaleornone)
       IN  /\ call' = [call EXCEPT ![c] = [NoCall EXCEPT !.args = {a},
                                                        !.scale = r.scale,
                                                        !.raised = r.raised,
                                                        !.after = PublishedBefore(a)]]
           /\ pc' = [pc EXCEPT ![c] = IF r.raised # <<>> THEN "raised" ELSE "exists"]
    /\ UNCHANGED <<fs, cachedir, tablevars>>

\* Lines 63-65: create resolves the scale and constructs; the cache is not used.
CreateUncached(c, a, empty) ==
    /\ pc[c] = "idle"
    /\ a.method = "create"
    /\ LET r == resolvescale(a.rates[1], a.rates[2], a.scaleornone)
       IN  IF r.raised # <<>>
           THEN /\ call' = [call EXCEPT ![c] = [NoCall EXCEPT !.args = {a},
                                                             !.raised = r.raised]]
                /\ pc' = [pc EXCEPT ![c] = "raised"]
           ELSE /\ call' = [call EXCEPT ![c] =
                    [NoCall EXCEPT !.args = {a},
                                   !.scale = r.scale,
                                   !.built = TRUE,
                                   !.minbleps = {MinBleps(a.rates[1], a.rates[2],
                                                          CHOOSE s \in r.scale : TRUE,
                                                          a.transition, empty)}]]
                /\ pc' = [pc EXCEPT ![c] = "returned"]
    /\ UNCHANGED <<fs, cachedir, tablevars>>

\* Line 52: if path.exists()
PathExists(c) ==
    /\ pc[c] = "exists"
    /\ call' = [call EXCEPT ![c].touched = TRUE]
    /\ pc' = [pc EXCEPT ![c] = IF fs[path(c)] # {} THEN "load" ELSE "construct"]
    /\ UNCHANGED <<fs, cachedir, tablevars>>

\* Line 54, path.open('rb'): a missing file raises out of loadorcreate.  The
\* open file is the one path names now: a later rename onto path does not
\* change what it yields, and a file at path is never written in place, so
\* f holds the bytes path holds at this step.
OpenForRead(c) ==
    /\ pc[c] = "load"
    /\ IF fs[path(c)] = {}
       THEN /\ call' = [call EXCEPT ![c].raised = <<"FileNotFoundError", 0, 0>>]
            /\ pc' = [pc EXCEPT ![c] = "raised"]
       ELSE /\ call' = [call EXCEPT ![c].opened = fs[path(c)]]
            /\ pc' = [pc EXCEPT ![c] = "read"]
    /\ UNCHANGED <<fs, cachedir, tablevars>>

\* Line 55, pickle.load(f), and the close of f: the table, or the exception
\* of a stream that ends early.
PickleLoad(c) ==
    /\ pc[c] = "read"
    /\ LET bytes == CHOOSE x \in call[c].opened : TRUE
           loaded == pickleload(bytes)
       IN  IF loaded = {}
           THEN /\ \E e \in pickleerrors(bytes) :
                    call' = [call EXCEPT ![c].raised = <<e, 0, 0>>,
                                         ![c].opened = {}]
                /\ pc' = [pc EXCEPT ![c] = "raised"]
           ELSE /\ call' = [call EXCEPT ![c].minbleps = loaded,
                                        ![c].opened = {}]
                /\ pc' = [pc EXCEPT ![c] = "returned"]
    /\ UNCHANGED <<fs, cachedir, tablevars>>

\* Line 58: minbleps = cls(naiverate, outrate, scale, cutoff, transition)
Constructor(c, empty) ==
    /\ pc[c] = "construct"
    /\ call' = [call EXCEPT ![c].built = TRUE,
                            ![c].minbleps = {MinBleps(argsof(c).rates[1], argsof(c).rates[2],
                                                      scaleof(c), argsof(c).transition,
                                                      empty)}]
    /\ pc' = [pc EXCEPT ![c] = "atomic"]
    /\ UNCHANGED <<fs, cachedir, tablevars>>

CallLoadOrCreate(c) == \E a \in CallArgs : LoadOrCreate(c, a)

CallCreate(c) ==
    \E a \in CallArgs : \E empty \in [0..(a.rates[2] - 1) -> EmptyValues] :
        CreateUncached(c, a, empty)

Construct(c) ==
    /\ pc[c] = "construct"
    /\ \E empty \in [0..(argsof(c).rates[2] - 1) -> EmptyValues] : Constructor(c, empty)

\* Line 59, `with atomic(path) as q`: the parent directories of path are
\* made if missing and q names a file that does not exist yet.
AtomicEnter(c) ==
    /\ pc[c] = "atomic"
    /\ cachedir' = TRUE
    /\ fs' = [fs EXCEPT ![temppath(c)] = {}]
    /\ pc' = [pc EXCEPT ![c] = "open"]
    /\ UNCHANGED <<call, tablevars>>

\* Line 59, q.open('wb'): the file is created, or truncated, empty.
OpenForWrite(c) ==
    /\ pc[c] = "open"
    /\ fs' = [fs EXCEPT ![dumppath(c)] = {<<>>}]
    /\ call' = [call EXCEPT ![c].touched = TRUE]
    /\ pc' = [pc EXCEPT ![c] = "dump"]
    /\ UNCHANGED <<cachedir, tablevars>>

\* Line 60: the first half of the pickle reaches the file.
DumpHead(c) ==
    /\ pc[c] = "dump"
    /\ fs' = [fs EXCEPT ![dumppath(c)] = {dumphead(pickledump(tableof(c)))}]
    /\ pc' = [pc EXCEPT ![c] = "dumprest"]
    /\ UNCHANGED <<call, cachedir, tablevars>>

\* Line 60 and the close of f: the whole pickle is in the file.
DumpRest(c) ==
    /\ pc[c] = "dumprest"
    /\ fs' = [fs EXCEPT ![dumppath(c)] = {pickledump(tableof(c))}]
    /\ pc' = [pc EXCEPT ![c] = "publish"]
    /\ UNCHANGED <<call, cachedir, tablevars>>

\* The end of the atomic block: q is renamed onto path in one step, replacing
\* what was there; a q that does not exist raises.
AtomicExit(c) ==
    /\ pc[c] = "publish"
    /\ IF fs[temppath(c)] = {}
       THEN /\ call' = [call EXCEPT ![c].raised = <<"FileNotFoundError", 0, 0>>]
            /\ pc' = [pc EXCEPT ![c] = "raised"]
            /\ UNCHANGED fs
       ELSE /\ fs' = [fs EXCEPT ![path(c)] = fs[temppath(c)], ![temppath(c)] = {}]
            /\ call' = [call EXCEPT ![c].published = TRUE]
            /\ pc' = [pc EXCEPT ![c] = "returned"]
    /\ UNCHANGED <<cachedir, tablevars>>

\* The writer is interrupted (killed) inside the atomic block, between
\* opening the temporary file and publishing it; its files stay as they are.
Interrupt(c) ==
    /\ pc[c] \in {"dumprest", "publish"}
    /\ pc' = [pc EXCEPT ![c] = "killed"]
    /\ UNCHANGED <<call, fs, cachedir, tablevars>>

CacheNext ==
    \E c \in Calls :
        \/ CallLoadOrCreate(c)
        \/ CallCreate(c)
        \/ PathExists(c)
        \/ OpenForRead(c)
        \/ PickleLoad(c)
        \/ Construct(c)
        \/ AtomicEnter(c)
        \/ OpenForWrite(c)
        \/ DumpHead(c)
        \/ DumpRest(c)
        \/ AtomicExit(c)
        \/ Interrupt(c)

SpecCache == CacheInit /\ [][CacheNext]_vars

----------------------------------------------------------------------------
(* Claims about the table. *)

Divides(d, n) == n % d = 0

\* The greatest common divisor, by its definition rather than by Euclid.
IsGcd(g, a, b) ==
    /\ Divides(g, a) /\ Divides(g, b)
    /\ \A d \in 1..a : (Divides(d, a) /\ Divides(d, b)) => d <= g

\* a / gcd(a, b)
IdealScale(a, b) == CHOOSE s \in 1..a : \E g \in 1..a : IsGcd(g, a, b) /\ s * g = a

\* The smallest naive index n with naivex2outx[n] = o, as a set: empty when
\* no naive index maps to o.
MinNaivex(t, o) ==
    {n \in DOMAIN t.naivex2outx :
        /\ t.naivex2outx[n] = o
        /\ \A m \in DOMAIN t.naivex2outx : t.naivex2outx[m] = o => n <= m}

\* C1: resolvescale(naiverate, outrate, None) is naiverate / gcd(naiverate,
\* outrate), and an override equal to that value gives the same result
\* without raising.
C1_ResolveScaleIdeal ==
    \A r \in request :
        LET ideal == IdealScale(r.naiverate, r.outrate)
        IN  r.scaleornone \in {{}, {ideal}} =>
                /\ raised = <<>>
                /\ minbleps # {}
                /\ resolvescale(r.naiverate, r.outrate, r.scaleornone)
                       = [raised |-> <<>>, scale |-> {ideal}]
                /\ resolvescale(4, 6, {2}) = [raised |-> <<>>, scale |-> {2}]

C1_Witness ==
    \E r \in request, t \in minbleps :
        /\ r.naiverate = 4 /\ r.outrate = 2 /\ r.scaleornone = {2}
        /\ t.naivex2outx[3] = 1

\* C3: getminnaiven(naivex, getoutcount(naivex, naiveN)) <= naiveN for every
\* in-period naivex and every naiveN >= 0.
C3_RoundTripNoMore ==
    \A t \in minbleps, q \in query :
        q.op = "getoutcount" => getminnaiven(t, q.naivex, q.ret) <= q.arg

C3_Witness ==
    \E t \in minbleps, q \in query :
        /\ q.op = "getoutcount"
        /\ t.naiverate = 3 /\ t.outrate = 2
        /\ q.naivex = 1 /\ q.arg >= 2 * t.naiverate
        /\ getminnaiven(t, q.naivex, q.ret) < q.arg

\* C4: naivex2outx[outx2minnaivex[naivex2outx[n]]] = naivex2outx[n] for
\* every naive index n of the period.
C4_InverseConsistent ==
    \A t \in minbleps : \A n \in 0..(t.naiverate - 1) :
        LET m == t.outx2minnaivex[t.naivex2outx[n]]
        IN  /\ m \in 0..(t.naiverate - 1)
            /\ t.naivex2outx[m] = t.naivex2outx[n]

C4_Witness ==
    \E t \in minbleps :
        /\ t.naiverate = 2 /\ t.outrate = 3
        /\ t.outx2minnaivex[t.naivex2outx[1]] = 1

\* C5: getminnaiven(naivex, outcount) is non-negative, enough naive samples
\* for outcount output samples, and the least such number.
C5_MinNaiveNIsMinimum ==
    \A t \in minbleps, q \in query :
        q.op = "getminnaiven" =>
            /\ q.ret >= 0
            /\ getoutcount(t, q.naivex, q.ret) >= q.arg
            /\ \A k \in 0..(q.ret - 1) : getoutcount(t, q.naivex, k) < q.arg

\* C8: every outx2minnaivex[o], o in [0, outrate), is the smallest naive
\* index that naivex2outx maps to o.
C8_InverseIsSmallest ==
    \A t \in minbleps : \A o \in 0..(t.outrate - 1) :
        t.outx2minnaivex[o] \in MinNaivex(t, o)

\* C9: naivex2shape[n] lies in [0, scale), naivex2off[n] is that phase times
\* mixinsize, and the run of mixinsize samples from naivex2off[n] lies inside
\* the demultiplexed table of scale * mixinsize samples.
C9_PhaseRunInsideTable ==
    \A t \in minbleps : \A n \in 0..(t.naiverate - 1) :
        LET scale == IdealScale(t.naiverate, t.outrate)
        IN
        /\ t.naivex2shape[n] \in 0..(scale - 1)
        /\ t.naivex2off[n] = t.naivex2shape[n] * t.mixinsize
        /\ t.demultiplexedlen = scale * t.mixinsize
        /\ 0 <= t.naivex2off[n]
        /\ t.naivex2off[n] + t.mixinsize <= t.demultiplexedlen

C9_Witness ==
    \E t \in minbleps :
        /\ t.naiverate = 3 /\ t.outrate = 2 /\ t.blilen = 256
        /\ \E n \in 0..(t.naiverate - 1) : t.naivex2shape[n] = 0
        /\ \E n \in 0..(t.naiverate - 1) : t.naivex2shape[n] = 2

\* C10: the counts of consecutive blocks add up to
\* floor((naivex0 + N) * outrate / naiverate) - floor(naivex0 * outrate / naiverate),
\* which is getoutcount(naivex0, N); no count is negative, and a block of
\* naiverate samples yields outrate samples.
C10_StreamNoDrift ==
    \A t \in minbleps, s \in stream :
        /\ s.produced = ((s.naivex0 + s.consumed) * t.outrate) \div t.naiverate
                        - (s.naivex0 * t.outrate) \div t.naiverate
        /\ s.produced = getoutcount(t, s.naivex0, s.consumed)
        /\ s.outcount >= 0
        /\ s.naiven = t.naiverate => s.outcount = t.outrate

C10_Witness ==
    \E t \in minbleps, s \in stream :
        /\ t.naiverate = 3 /\ t.outrate = 4
        /\ s.naivex0 = 2
        /\ s.consumed > 2 * MaxBlock
        /\ s.naiven = t.naiverate
        /\ s.produced > 2 * t.outrate

----------------------------------------------------------------------------
(* Claims about scale errors and the cache. *)

IsLoadOrCreate(c) == \A a \in call[c].args : a.method = "loadorcreate"

\* The call was made with an override that is not the ideal scale.
BadOverride(c) ==
    \E a \in call[c].args :
        /\ a.scaleornone # {}
        /\ a.scaleornone # {IdealScale(a.rates[1], a.rates[2])}

BadScaleRaised ==
    \A c \in Calls : BadOverride(c) =>
        LET a == argsof(c)
        IN  /\ pc[c] = "raised"
            /\ call[c].raised = <<"Exception", CHOOSE s \in a.scaleornone : TRUE,
                                  IdealScale(a.rates[1], a.rates[2])>>
            /\ call[c].minbleps = {}
            /\ ~call[c].built
            /\ ~call[c].touched
            /\ ~call[c].published

RaisingLeavesCache ==
    \A c \in Calls :
        (pc[c] = "idle" /\ pc'[c] = "raised") => (fs' = fs /\ cachedir' = cachedir)

\* C2: with an override that differs from the ideal scale, create and
\* loadorcreate raise an exception carrying the requested and the ideal
\* scale, construct no table and neither read nor write the cache: the step
\* that raises leaves every cache path as it was.
C2_BadScaleFailsFirst == []BadScaleRaised /\ [][RaisingLeavesCache]_vars

C2_Witness ==
    \E c \in Calls, d \in Calls :
        /\ BadOverride(c) /\ BadOverride(d)
        /\ argsof(c).method = "create" /\ argsof(d).method = "loadorcreate"
        /\ call[d].raised = <<"Exception", 3, 2>>

PublishedComplete ==
    \A p \in Paths : p[1] = CacheDir =>
        \A bytes \in fs[p] :
            \E c \in Calls :
                /\ call[c].built
                /\ bytes = pickledump(tableof(c))
                /\ pickleload(bytes) = call[c].minbleps

\* The only exception a call ends with is resolvescale's: no load meets a
\* missing or truncated file, no publish a missing temporary file.
NoLoadFails ==
    \A c \in Calls : call[c].raised # <<>> => call[c].raised[1] = "Exception"

PublishExact ==
    \A c \in Calls :
        (pc[c] = "publish" /\ pc'[c] # "killed" /\ pc'[c] # "publish") =>
            /\ pc'[c] = "returned"
            /\ fs'[temppath(c)] = {}
            /\ fs'[path(c)] = {pickledump(tableof(c))}
            /\ cachedir'

\* C6: the published path never holds anything but a completely written
\* entry, whatever the interleaving of writers, readers and interruptions,
\* and no reader loads a partial entry; when an atomic block completes, the
\* temporary path is gone and the published path holds exactly what was
\* written, whether or not the path or its directory existed before.
C6_AtomicPublish == [](PublishedComplete /\ NoLoadFails) /\ [][PublishExact]_vars

C6_Witness ==
    \E c \in Calls, d \in Calls :
        /\ pc[c] = "killed" /\ pc[d] = "returned"
        /\ path(c) = path(d)
        /\ fs[temppath(c)] = {dumphead(pickledump(tableof(c)))}
        /\ call[d].published
        /\ tableof(c) # tableof(d)
        /\ fs[path(d)] = {pickledump(tableof(d))}

\* C7: a loadorcreate made after an entry for its parameters (with the scale
\* the rates imply, passed or not) was published takes the load branch, never
\* constructs and never writes; and when one call built the entry and no
\* other call built one for the same parameters, a call that did not build
\* returns the very table the builder returned.
C7_SecondCallLoads ==
    /\ \A c \in Calls :
        (call[c].after /\ call[c].scale # {}) =>
            /\ pc[c] \in {"exists", "load", "read", "returned"}
            /\ ~call[c].built
            /\ ~call[c].published
            /\ fs[temppath(c)] = {}
    /\ \A c \in Calls, d \in Calls :
        ( /\ pc[c] = "returned" /\ pc[d] = "returned"
          /\ IsLoadOrCreate(c) /\ IsLoadOrCreate(d)
          /\ SameParams(argsof(c), argsof(d))
          /\ call[c].built /\ ~call[d].built
          /\ \A e \in Calls \ {c} :
                (call[e].args # {} /\ IsLoadOrCreate(e)
                 /\ SameParams(argsof(e), argsof(c))) => ~call[e].built )
        => call[d].minbleps = call[c].minbleps

C7_Witness ==
    \E c \in Calls, d \in Calls :
        /\ pc[c] = "returned" /\ pc[d] = "returned"
        /\ argsof(c).rates = <<2, 3>> /\ argsof(d).rates = <<2, 3>>
        /\ argsof(c).scaleornone = {} /\ argsof(d).scaleornone = {2}
        /\ call[c].built /\ call[c].published
        /\ call[d].after /\ ~call[d].built
        /\ call[d].minbleps = call[c].minbleps
        /\ tableof(d).outx2minnaivex[2] = 9

====
